---- MODULE Spec2Model ----
(***************************************************************************)
(* SyncManager of decentranet (src/src/core/Component.ts, lines 249-595):  *)
(* the priority queue of paths, the drain loop (processSyncQueue), the     *)
(* per-path SyncStatus map, forceSync / forceSyncAll, pause / resume and   *)
(* stop.  Every await of the TypeScript code is a point where the other    *)
(* handlers may run; everything between two awaits is one atomic step.     *)
(***************************************************************************)
EXTENDS Integers, Sequences, FiniteSets, TLC

(***************************************************************************)
(* Bounds of the model.                                                    *)
(***************************************************************************)
\* remote updates counted on one status object before the environment stops
MaxPending == 1
\* how far below zero pendingChanges may be driven before reconciliations stop
MaxNegative == 1
\* drain loops (processSyncQueue activations) that may be alive at once
MaxDrains == 2
\* client calls and store notifications in one run
MaxCalls == 3

\* the paths the queue specification watches, and the two of them the full
\* interleaving uses
Paths == {"a", "b", "c", "d"}
MainPaths == {"a", "b"}
NoPath == "none"

\* enum SyncPriority (Types)
Low == "low"
Normal == "normal"
High == "high"
SyncPriority == {Low, Normal, High}

\* private maxRetries: number = 3
maxRetries == 3

\* const priorityValues
priorityValues(p) == CASE p = Low -> 0 [] p = Normal -> 1 [] p = High -> 2

VARIABLES
  syncKeys,           \* Map syncStatus: its keys, in insertion order
  syncStatus,         \* Map syncStatus: the SyncStatus object under each key
  syncQueue,          \* PriorityQueue.elements
  isSyncing,          \* the drain guard
  distributedStates,  \* keys of Map distributedStates
  drains,             \* the activations of processSyncQueue, by slot
  force,              \* the outstanding forceSync / forceSyncAll call
  last,               \* the handler that ran last, and what it emitted
  calls,              \* client calls and store notifications so far
  store,              \* ComponentRegistry: the graph store under components/
  indexedComponents,  \* ComponentRegistry: the metadata the search index is built over
  component,          \* the package object the client published last
  reg,                \* the registry call that ran last, and its outcome
  regInit,            \* the registry: how far the constructor's promise chain has come
  dsStore,            \* DistributedState: what the store holds under the path
  dsState,            \* DistributedState: this.state, the local cache
  dsCalls,            \* DistributedState: the calls that wait at an await
  dsLast,             \* DistributedState: the step that ran last, and what it emitted
  dsApplied,          \* DistributedState: the updaters of the accepted writes, in order
  dsNotes,            \* DistributedState: the change notifications yet to be delivered
  castSchema,         \* TypedSchema: the schema cast is tried with
  castInput,          \* TypedSchema: the data cast is tried on
  castOutput,         \* TypedSchema: what the last cast returned
  castStep,           \* TypedSchema: how often cast was applied
  peers,              \* PeerManager: the Map peers, its entries in insertion order
  peerSeen,           \* PeerManager: per peer id, the event that came last
  peerLast,           \* PeerManager: the call or notification that ran last
  analysis            \* PeerManager: what analyzeTopology returned last

regVars == <<store, indexedComponents, component, reg, regInit>>
syncVars == <<syncKeys, syncStatus, syncQueue, isSyncing, distributedStates, drains, force, last>>
dsVars == <<dsStore, dsState, dsCalls, dsLast, dsApplied, dsNotes>>
castVars == <<castSchema, castInput, castOutput, castStep>>
peerVars == <<peers, peerSeen, peerLast, analysis>>
vars == <<syncKeys, syncStatus, syncQueue, isSyncing, distributedStates, drains, force, last,
          calls, store, indexedComponents, component, reg, regInit, dsStore, dsState, dsCalls,
          dsLast, dsApplied, dsNotes, castSchema, castInput, castOutput, castStep,
          peers, peerSeen, peerLast, analysis>>

Called == calls < MaxCalls /\ calls' = calls + 1

Range(s) == {s[i] : i \in 1..Len(s)}

\* A SyncStatus object (lastSyncTime, a wall-clock stamp, is not part of the state)
NewStatus(priority) == [pendingChanges |-> 0, priority |-> priority, isPaused |-> FALSE]
\* the value kept for a key that is not in the map
Blank == [pendingChanges |-> 0, priority |-> NoPath, isPaused |-> FALSE]

Has(p) == p \in Range(syncKeys)

DrainIds == 1..MaxDrains
\* attempts counts the calls of gunDataProvider.get in the reconciliation under
\* way; exhausted tells that this activation gave a path up after its fetch failed
IdleDrain == [pc |-> "idle", path |-> NoPath, retries |-> 0, attempts |-> 0,
              attached |-> FALSE, held |-> Blank, exhausted |-> FALSE]
Awaiting(path, exhausted) ==
  [IdleDrain EXCEPT !.pc = "next", !.path = path, !.exhausted = exhausted]
IdleForce == [pc |-> "idle", path |-> NoPath, rest |-> <<>>, all |-> FALSE]
NoEntry == [priority |-> NoPath, value |-> NoPath]

Op(op, path, events) ==
  [op |-> op, path |-> path, events |-> events, dequeued |-> NoEntry, result |-> "ok"]

(***************************************************************************)
(* PriorityQueue                                                           *)
(***************************************************************************)
\* Array.prototype.sort with the comparator priorityValues[a] - priorityValues[b]:
\* ascending by priority value, stable.
WithPriority(elements, v) == SelectSeq(elements, LAMBDA e : priorityValues(e.priority) = v)
SortElements(elements) ==
  WithPriority(elements, 0) \o WithPriority(elements, 1) \o WithPriority(elements, 2)

enqueue(elements, value, priority) ==
  SortElements(Append(elements, [priority |-> priority, value |-> value]))

\* dequeue(): elements.shift()
dequeueRest(elements) == Tail(elements)
dequeueEntry(elements) == Head(elements)

\* a re-enqueue that pushes a second entry instead of updating the one in place
updatePriority_pushes(elements, value, priority) == enqueue(elements, value, priority)

\* updatePriority that takes the entry out and enqueues it again
updatePriority_requeues(elements, value, priority) ==
  IF \E i \in 1..Len(elements) : elements[i].value = value
  THEN enqueue(SelectSeq(elements, LAMBDA e : e.value # value), value, priority)
  ELSE elements

updatePriority(elements, value, priority) ==
  IF \E i \in 1..Len(elements) : elements[i].value = value
  THEN LET index == CHOOSE i \in 1..Len(elements) :
                      /\ elements[i].value = value
                      /\ \A j \in 1..(i-1) : elements[j].value # value
       IN SortElements([elements EXCEPT ![index].priority = priority])
  ELSE elements

remove(elements, value) == SelectSeq(elements, LAMBDA e : e.value # value)

(***************************************************************************)
(* The Map syncStatus and the objects the drain loops hold                 *)
(***************************************************************************)
\* An activation that holds the object stored under p keeps it when the map
\* entry is deleted or overwritten by another object.
Detach(ds, p, except) ==
  [d \in DrainIds |->
     IF d # except /\ ds[d].pc = "fetch" /\ ds[d].path = p /\ ds[d].attached
     THEN [ds[d] EXCEPT !.attached = FALSE, !.held = syncStatus[p]]
     ELSE ds[d]]

DetachAll(ds) ==
  [d \in DrainIds |->
     IF ds[d].pc = "fetch" /\ ds[d].attached
     THEN [ds[d] EXCEPT !.attached = FALSE, !.held = syncStatus[ds[d].path]]
     ELSE ds[d]]

deleteKey(keys, p) == SelectSeq(keys, LAMBDA k : k # p)
setKey(keys, p) == IF p \in Range(keys) THEN keys ELSE Append(keys, p)

(***************************************************************************)
(* processSyncQueue, up to its first await.  q is the queue and ds the     *)
(* activations at the moment of the call; the result is the new queue,     *)
(* guard, activations and the entry dequeued (NoEntry when none).          *)
(***************************************************************************)
\* processPendingChanges(path) up to its first await, run by activation d
processPendingChanges(old, entry, keys) ==
  IF entry.value \notin Range(keys)
  THEN Awaiting(entry.value, old.exhausted)
  ELSE [pc |-> "fetch", path |-> entry.value, retries |-> 0, attempts |-> 1,
        attached |-> TRUE, held |-> Blank, exhausted |-> old.exhausted]

\* the while loop without `this.isSyncing = false` after it
DrainLoop_keepsGuard(d, q, ds, keys) ==
  IF q = <<>>
  THEN [queue |-> q, syncing |-> TRUE, drains |-> [ds EXCEPT ![d] = IdleDrain],
        dequeued |-> NoEntry]
  ELSE [queue |-> dequeueRest(q), syncing |-> TRUE,
        drains |-> [ds EXCEPT ![d] = processPendingChanges(ds[d], dequeueEntry(q), keys)],
        dequeued |-> dequeueEntry(q)]

\* the while loop of processSyncQueue, entered or resumed by activation d
DrainLoop(d, q, ds, keys) ==
  IF q = <<>>
  THEN [queue |-> q, syncing |-> FALSE, drains |-> [ds EXCEPT ![d] = IdleDrain],
        dequeued |-> NoEntry]
  ELSE [queue |-> dequeueRest(q), syncing |-> TRUE,
        drains |-> [ds EXCEPT ![d] = processPendingChanges(ds[d], dequeueEntry(q), keys)],
        dequeued |-> dequeueEntry(q)]

FreeDrain(ds) == CHOOSE d \in DrainIds : ds[d].pc = "idle" /\ \A e \in 1..(d-1) : ds[e].pc # "idle"

processSyncQueue(q, ds, keys) ==
  IF isSyncing \/ q = <<>>
  THEN [queue |-> q, syncing |-> isSyncing, drains |-> ds, dequeued |-> NoEntry]
  ELSE DrainLoop(FreeDrain(ds), q, ds, keys)

\* an activation that has something to dequeue needs a slot
CanCallProcessSyncQueue(q) ==
  isSyncing \/ q = <<>> \/ \E d \in DrainIds : drains[d].pc = "idle"

(***************************************************************************)
(* Public operations                                                       *)
(***************************************************************************)
startSyncBody(path, priority, op) ==
  /\ CanCallProcessSyncQueue(enqueue(syncQueue, path, priority))
  /\ LET keys == Append(syncKeys, path)
         r == processSyncQueue(enqueue(syncQueue, path, priority), drains, keys)
     IN /\ syncKeys' = keys
        /\ syncStatus' = [syncStatus EXCEPT ![path] = NewStatus(priority)]
        /\ syncQueue' = r.queue
        /\ isSyncing' = r.syncing
        /\ drains' = r.drains
        /\ last' = [Op(op, path, <<"syncStarted">>) EXCEPT !.dequeued = r.dequeued]

\* startSync without the test for a path that is watched already
startSync_restarts(path, priority) ==
  /\ startSyncBody(path, priority, "startSync")
  /\ UNCHANGED <<distributedStates, force>>

\* startSync(path, priority): a watched path gets a warning and nothing else
startSync(path, priority) ==
  IF Has(path)
  THEN /\ last' = [Op("startSync", path, <<>>) EXCEPT !.result = "ignored"]
       /\ UNCHANGED <<syncKeys, syncStatus, syncQueue, isSyncing, distributedStates,
                      drains, force>>
  ELSE /\ startSyncBody(path, priority, "startSync")
       /\ UNCHANGED <<distributedStates, force>>

\* a call of startSync by the client, counted in the budget of calls
Start(path, priority) == Called /\ startSync(path, priority)

\* a call of startSync outside the budget: a path is started once
StartFreely(path, priority) == UNCHANGED calls /\ startSync(path, priority)

stopSync(path) ==
  /\ Called
  /\ Has(path)
  /\ syncKeys' = deleteKey(syncKeys, path)
  /\ syncStatus' = [syncStatus EXCEPT ![path] = Blank]
  /\ syncQueue' = remove(syncQueue, path)
  /\ drains' = Detach(drains, path, 0)
  /\ last' = Op("stopSync", path, <<"syncStopped">>)
  /\ UNCHANGED <<isSyncing, distributedStates, force>>

\* handleUpdate without the isPaused test
handleUpdate_ignoresPause(path) ==
  /\ IF ~Has(path)
     THEN /\ last' = Op("handleUpdate", path, <<>>)
          /\ UNCHANGED <<syncKeys, syncStatus, syncQueue, isSyncing, distributedStates,
                         drains, force>>
     ELSE /\ syncStatus[path].pendingChanges < MaxPending
          /\ CanCallProcessSyncQueue(syncQueue)
          /\ LET status == [syncStatus[path] EXCEPT !.pendingChanges = @ + 1]
                 r == processSyncQueue(updatePriority(syncQueue, path, status.priority),
                                       drains, syncKeys)
             IN /\ syncStatus' = [syncStatus EXCEPT ![path] = status]
                /\ syncQueue' = r.queue
                /\ isSyncing' = r.syncing
                /\ drains' = r.drains
                /\ last' = [Op("handleUpdate", path, <<"dataUpdated">>)
                              EXCEPT !.dequeued = r.dequeued]
          /\ UNCHANGED <<syncKeys, distributedStates, force>>

\* the listener startSync registers with the store: handleUpdate(path, data)
handleUpdate(path) ==
  /\ IF ~Has(path) \/ syncStatus[path].isPaused
     THEN /\ last' = Op("handleUpdate", path, <<>>)
          /\ UNCHANGED <<syncKeys, syncStatus, syncQueue, isSyncing, distributedStates,
                         drains, force>>
     ELSE /\ syncStatus[path].pendingChanges < MaxPending
          /\ CanCallProcessSyncQueue(syncQueue)
          /\ LET status == [syncStatus[path] EXCEPT !.pendingChanges = @ + 1]
                 r == processSyncQueue(updatePriority(syncQueue, path, status.priority),
                                       drains, syncKeys)
             IN /\ syncStatus' = [syncStatus EXCEPT ![path] = status]
                /\ syncQueue' = r.queue
                /\ isSyncing' = r.syncing
                /\ drains' = r.drains
                /\ last' = [Op("handleUpdate", path, <<"dataUpdated">>)
                              EXCEPT !.dequeued = r.dequeued]
          /\ UNCHANGED <<syncKeys, distributedStates, force>>

\* a notification of the store, counted in the budget of calls
Notify(path) == Called /\ handleUpdate(path)

pauseSync(path) ==
  /\ Called
  /\ Has(path)
  /\ syncStatus' = [syncStatus EXCEPT ![path].isPaused = TRUE]
  /\ last' = Op("pauseSync", path, <<"syncPaused">>)
  /\ UNCHANGED <<syncKeys, syncQueue, isSyncing, distributedStates, drains, force>>

resumeSync(path) ==
  /\ Called
  /\ Has(path)
  /\ syncStatus' = [syncStatus EXCEPT ![path].isPaused = FALSE]
  /\ last' = Op("resumeSync", path, <<"syncResumed">>)
  /\ UNCHANGED <<syncKeys, syncQueue, isSyncing, distributedStates, drains, force>>

\* stop(): the body of its for loop runs for the first key only, because it
\* clears the map it iterates
\* and does not run at all when no path is watched
stop ==
  /\ Called
  /\ IF syncKeys = <<>>
     THEN /\ last' = Op("stop", NoPath, <<>>)
          /\ UNCHANGED <<syncKeys, syncStatus, syncQueue, isSyncing, distributedStates,
                         drains>>
     ELSE /\ syncKeys' = <<>>
          /\ syncStatus' = [p \in Paths |-> Blank]
          /\ syncQueue' = <<>>
          /\ isSyncing' = FALSE
          /\ distributedStates' = distributedStates \ {Head(syncKeys)}
          /\ drains' = DetachAll(drains)
          /\ last' = Op("stop", Head(syncKeys), <<"syncStopped", "stopped">>)
  /\ UNCHANGED force

\* persistState(path, schema)
\* `throw new Error('State already synced for path ...')`
AlreadySynced(op, path) ==
  /\ Called
  /\ last' = [Op(op, path, <<>>) EXCEPT !.result = "threw"]
  /\ UNCHANGED <<syncKeys, syncStatus, syncQueue, isSyncing, distributedStates,
                 drains, force>>

\* persistState without the test for a bound state
persistState_rebinds(path) ==
  /\ Called
  /\ distributedStates' = distributedStates \cup {path}
  /\ last' = Op("persistState", path, <<>>)
  /\ UNCHANGED <<syncKeys, syncStatus, syncQueue, isSyncing, drains, force>>

persistState(path) ==
  IF path \in distributedStates
  THEN AlreadySynced("persistState", path)
  ELSE /\ Called
       /\ distributedStates' = distributedStates \cup {path}
       /\ last' = Op("persistState", path, <<>>)
       /\ UNCHANGED <<syncKeys, syncStatus, syncQueue, isSyncing, drains, force>>

\* syncState(path, schema): binds a DistributedState, then startSync(path)
syncState(path) ==
  IF path \in distributedStates
  THEN AlreadySynced("syncState", path)
  ELSE /\ distributedStates' = distributedStates \cup {path}
       /\ IF Has(path)
          THEN /\ Called
               /\ last' = Op("syncState", path, <<>>)
               /\ UNCHANGED <<syncKeys, syncStatus, syncQueue, isSyncing, drains, force>>
          ELSE /\ Called
               /\ startSyncBody(path, Normal, "syncState")
               /\ UNCHANGED force

(***************************************************************************)
(* The drain loop after its awaits                                         *)
(***************************************************************************)
\* processSyncQueue resumes after `await this.processPendingChanges(path)`
DrainNext(d) ==
  /\ UNCHANGED calls
  /\ drains[d].pc = "next"
  /\ LET r == DrainLoop(d, syncQueue, drains, syncKeys)
     IN /\ syncQueue' = r.queue
        /\ isSyncing' = r.syncing
        /\ drains' = r.drains
        /\ last' = [Op("drainNext", NoPath, <<>>) EXCEPT !.dequeued = r.dequeued]
  /\ UNCHANGED <<syncKeys, syncStatus, distributedStates, force>>

\* the status object activation d took from the map before its fetch
HeldStatus(d) == IF drains[d].attached THEN syncStatus[drains[d].path] ELSE drains[d].held

\* the catch block with the bound compared by > instead of >=
RetryOrGiveUp_late(d, op) ==
  LET retries == drains[d].retries + 1
  IN IF retries > maxRetries
     THEN /\ drains' = [drains EXCEPT ![d] =
                          Awaiting(drains[d].path, drains[d].exhausted \/ op = "fetchFails")]
          /\ last' = [Op(op, drains[d].path, <<"syncError">>)
                        EXCEPT !.result = "failed"]
     ELSE /\ drains' = [drains EXCEPT ![d].retries = retries, ![d].attempts = @ + 1]
          /\ last' = [Op(op, drains[d].path, <<>>)
                        EXCEPT !.result = "retry"]

\* the catch block of processPendingChanges
RetryOrGiveUp(d, op) ==
  LET retries == drains[d].retries + 1
  IN IF retries >= maxRetries
     THEN /\ drains' = [drains EXCEPT ![d] =
                          Awaiting(drains[d].path, drains[d].exhausted \/ op = "fetchFails")]
          /\ last' = [Op(op, drains[d].path, <<"syncError">>)
                        EXCEPT !.result = "failed"]
     ELSE /\ drains' = [drains EXCEPT ![d].retries = retries, ![d].attempts = @ + 1]
          /\ last' = [Op(op, drains[d].path, <<>>)
                        EXCEPT !.result = "retry"]

\* `await this.gunDataProvider.get(path)` rejects
FetchFails(d) ==
  /\ UNCHANGED calls
  /\ drains[d].pc = "fetch"
  /\ RetryOrGiveUp(d, "fetchFails")
  /\ UNCHANGED <<syncKeys, syncStatus, syncQueue, isSyncing, distributedStates, force>>

\* the decrement of a successful reconciliation
Reconciled(status) == [status EXCEPT !.pendingChanges = @ - 1]

\* `await this.gunDataProvider.get(path)` resolves.  With a DistributedState
\* bound to the path, state.update(data) is called with data, which is no
\* function: DistributedState.update rejects and the catch block runs.
FetchSucceeds(d) ==
  /\ UNCHANGED calls
  /\ drains[d].pc = "fetch"
  /\ LET path == drains[d].path
     IN IF path \in distributedStates
        THEN /\ RetryOrGiveUp(d, "applyFails")
             /\ UNCHANGED <<syncKeys, syncStatus>>
        ELSE /\ HeldStatus(d).pendingChanges > -MaxNegative
             /\ syncStatus' = [syncStatus EXCEPT ![path] = Reconciled(HeldStatus(d))]
             /\ syncKeys' = setKey(syncKeys, path)
             /\ drains' = [Detach(drains, path, d) EXCEPT
                             ![d] = Awaiting(path, drains[d].exhausted)]
             /\ last' = Op("fetchSucceeds", path, <<"syncCompleted">>)
  /\ UNCHANGED <<syncQueue, isSyncing, distributedStates, force>>

(***************************************************************************)
(* forceSync and forceSyncAll                                              *)
(***************************************************************************)
\* forceSync(path) up to its await; rest are the paths forceSyncAll has left
CallForceSync(path, rest, all, op) ==
  IF ~Has(path)
  THEN /\ force' = IdleForce
       /\ last' = [Op(op, path, <<>>) EXCEPT !.result = "rejected"]
  ELSE /\ force' = [pc |-> "fetch", path |-> path, rest |-> rest, all |-> all]
       /\ last' = Op(op, path, <<>>)

forceSync(path) ==
  /\ Called
  /\ force.pc = "idle"
  /\ CallForceSync(path, <<>>, FALSE, "forceSync")
  /\ UNCHANGED <<syncKeys, syncStatus, syncQueue, isSyncing, distributedStates, drains>>

forceSyncAll ==
  /\ Called
  /\ force.pc = "idle"
  /\ IF syncKeys = <<>>
     THEN /\ force' = IdleForce
          /\ last' = Op("forceSyncAll", NoPath, <<"forceSyncAllCompleted">>)
     ELSE CallForceSync(Head(syncKeys), Tail(syncKeys), TRUE, "forceSyncAll")
  /\ UNCHANGED <<syncKeys, syncStatus, syncQueue, isSyncing, distributedStates, drains>>

\* the catch block of forceSync: syncError, and the call rejects (forceSyncAll with it)
ForceRejects(op) ==
  /\ force' = IdleForce
  /\ last' = [Op(op, force.path, <<"syncError">>) EXCEPT !.result = "rejected"]
  /\ UNCHANGED <<syncKeys, syncStatus, syncQueue, isSyncing, distributedStates, drains>>

ForceFetchFails ==
  /\ UNCHANGED calls
  /\ force.pc = "fetch"
  /\ ForceRejects("forceFails")

ForceFetchSucceeds ==
  /\ UNCHANGED calls
  /\ force.pc = "fetch"
  /\ IF force.path \in distributedStates \/ ~Has(force.path)
     THEN ForceRejects("forceApplyFails")
     ELSE /\ syncStatus' = [syncStatus EXCEPT ![force.path].pendingChanges = 0]
          /\ IF force.all /\ force.rest # <<>>
             THEN \* forceSyncAll goes on to forceSync(the next path)
                  IF ~Has(Head(force.rest))
                  THEN /\ force' = IdleForce
                       /\ last' = [Op("forceSucceeds", force.path, <<"syncCompleted">>)
                                     EXCEPT !.result = "rejected"]
                  ELSE /\ force' = [force EXCEPT !.path = Head(force.rest),
                                                 !.rest = Tail(force.rest)]
                       /\ last' = Op("forceSucceeds", force.path, <<"syncCompleted">>)
             ELSE /\ force' = IdleForce
                  /\ last' = Op("forceSucceeds", force.path,
                                IF force.all THEN <<"syncCompleted", "forceSyncAllCompleted">>
                                ELSE <<"syncCompleted">>)
          /\ UNCHANGED <<syncKeys, syncQueue, isSyncing, distributedStates, drains>>

(***************************************************************************)
(* ComponentRegistry                                                       *)
(*                                                                         *)
(* A key pair is named by its public key.  Gun's SEA is taken by what its  *)
(* wrapper (auth/SEA) promises: sign(data, pair) binds data to pair,       *)
(* decrypt gives the plaintext back with the key encrypt was given and     *)
(* undefined with any other, secret(pub, pair) is a key of its own.        *)
(***************************************************************************)
Authors == {"alice"}
Ids == {"widget", "gadget"}
Versions == {"1.0.0", "2.0.0"}
Users == {"pubA", "pubB"}
Publishers == {"alice"}
Codes == {"code", "evil"}
SymmetricKeys == {"k1"}

\* an address 'author/id/version', as the triple address.split('/') makes of it
Addresses == Authors \X Ids \X Versions

\* interface AccessControlList; NoAcl is the acl of an object that has none
NoAcl == [type |-> "undefined", allowedUsers |-> {}]
Acls ==
  {[type |-> "public", allowedUsers |-> {}],
   [type |-> "private", allowedUsers |-> {"pubA"}],
   [type |-> "shared", allowedUsers |-> {}]}

\* SEA.sign(data, pair); the signature of metadata that has none is <<>>
NoSignature == <<>>
sign(data, pair) == <<data, pair>>

\* JSON.stringify({ metadata, code }): a signature that is undefined is left out
stringify(metadata, code) == [metadata |-> metadata, code |-> code]

\* what verifyComponentSignature signs again: { ...metadata, signature: undefined }
signedData(metadata, code) ==
  stringify([metadata EXCEPT !.signature = NoSignature], code)

\* SEA.verify as verifyComponentSignature calls it, with the data and the signature
verify(data, signature) == signature # NoSignature /\ signature[1] = data

\* keys: a key pair used as a key, and SEA.secret(pub, pair)
NoKey == [kind |-> "none", a |-> "", b |-> ""]
PairKey(pair) == [kind |-> "pair", a |-> pair, b |-> pair]
secret(pub, pair) == [kind |-> "secret", a |-> pub, b |-> pair]

\* SEA.decrypt(encrypted, key) of what SEA.encrypt(data, with) made
decrypts(with, key) == with # NoKey /\ with = key

NoMetadata ==
  [author |-> "", id |-> "", version |-> "", acl |-> NoAcl, signature |-> NoSignature]
NoPackage == [metadata |-> NoMetadata, code |-> ""]

\* a package the client has built and not published yet
FreshPackages ==
  {[metadata |-> [author |-> a, id |-> i, version |-> v, acl |-> acl,
                  signature |-> NoSignature],
    code |-> "code"] : a \in Authors, i \in Ids, v \in Versions, acl \in Acls}

\* what a store path holds: nothing, a ComponentPackage (plain) or an
\* EncryptedComponentPackage, whose metadata and code are encrypted with
\* symmetricKey and whose encryptedKey[user] is symmetricKey encrypted with
\* the key given here
Absent ==
  [kind |-> "absent", metadata |-> NoMetadata, code |-> "", symmetricKey |-> "",
   encryptedKey |-> [u \in Users |-> NoKey]]

BaseTypes == {"public", "private"}
StorePaths == BaseTypes \X Authors \X Ids \X Versions
NoStorePath == <<"", "", "", "">>

RegOp(op, path, result, package, events) ==
  [op |-> op, path |-> path, result |-> result, package |-> package, events |-> events]

\* parseAddress(address): an object with author, id and version and nothing else
parseAddress(address) ==
  [NoMetadata EXCEPT !.author = address[1], !.id = address[2], !.version = address[3]]

\* getComponentPath(metadata) reads metadata.acl.type: a TypeError without an acl
getComponentPathThrows(metadata) == metadata.acl = NoAcl
getComponentPath(metadata) ==
  <<IF metadata.acl.type = "public" THEN "public" ELSE "private",
    metadata.author, metadata.id, metadata.version>>

\* encryptComponent(component, acl, currentUserPair) with the random key
encryptComponent(pkg, acl, currentUserPair, symmetricKey) ==
  [kind |-> "encrypted", metadata |-> pkg.metadata, code |-> pkg.code,
   symmetricKey |-> symmetricKey,
   encryptedKey |-> [u \in Users |-> IF u \in acl.allowedUsers
                                     THEN secret(u, currentUserPair) ELSE NoKey]]

\* decryptComponent(encryptedPackage, userPair): null without the symmetric key
decryptComponent(encryptedPackage, userPair) ==
  IF decrypts(encryptedPackage.encryptedKey[userPair], PairKey(userPair))
  THEN [metadata |-> encryptedPackage.metadata, code |-> encryptedPackage.code]
  ELSE NoPackage

verifyComponentSignature(pkg) ==
  verify(signedData(pkg.metadata, pkg.code), pkg.metadata.signature)

\* updateSearchIndex that adds an entry whatever the index holds
updateSearchIndex_pushes(index, metadata) == Append(index, metadata)

\* updateSearchIndex(metadata): replace the first entry of the id, or push
updateSearchIndex(index, metadata) ==
  IF \E i \in 1..Len(index) : index[i].id = metadata.id
  THEN LET existingIndex == CHOOSE i \in 1..Len(index) :
                              /\ index[i].id = metadata.id
                              /\ \A j \in 1..(i - 1) : index[j].id # metadata.id
       IN [index EXCEPT ![existingIndex] = metadata]
  ELSE Append(index, metadata)

\* getComponent(address, userPair): what it returns or throws
getComponentResult(address, userPair) ==
  IF getComponentPathThrows(parseAddress(address))
  THEN [result |-> "TypeError", package |-> NoPackage]
  ELSE LET data == store[getComponentPath(parseAddress(address))]
           decrypted == decryptComponent(data, userPair)
       IN CASE data.kind = "absent" -> [result |-> "null", package |-> NoPackage]
            [] data.kind = "plain" ->
                 IF verifyComponentSignature(data)
                 THEN [result |-> "ok",
                       package |-> [metadata |-> data.metadata, code |-> data.code]]
                 ELSE [result |-> "SignatureError", package |-> NoPackage]
            [] data.kind = "encrypted" ->
                 IF decrypted = NoPackage
                 THEN [result |-> "null", package |-> NoPackage]
                 ELSE IF verifyComponentSignature(decrypted)
                      THEN [result |-> "ok", package |-> decrypted]
                      ELSE [result |-> "SignatureError", package |-> NoPackage]

getComponent(address, userPair) ==
  /\ Called
  /\ LET r == getComponentResult(address, userPair)
     IN reg' = RegOp("getComponent", <<"">> \o address, r.result, r.package, <<>>)
  /\ UNCHANGED <<store, indexedComponents, component>>
  /\ UNCHANGED <<regInit, syncVars, dsVars, castVars, peerVars>>

\* publishComponent(component, currentUserPair) from its signature on
publish(pkg, currentUserPair, symmetricKey, op) ==
  LET path == getComponentPath(pkg.metadata)
      metadata == [pkg.metadata EXCEPT
                     !.signature = sign(stringify(pkg.metadata, pkg.code), currentUserPair)]
      signed == [metadata |-> metadata, code |-> pkg.code]
  IN /\ store' = [store EXCEPT ![path] =
                    IF metadata.acl.type = "public"
                    THEN [Absent EXCEPT !.kind = "plain", !.metadata = metadata,
                                        !.code = pkg.code]
                    ELSE encryptComponent(signed, metadata.acl, currentUserPair,
                                          symmetricKey)]
     /\ indexedComponents' = updateSearchIndex(indexedComponents, metadata)
     /\ component' = signed
     /\ reg' = RegOp(op, path, "ok", signed, <<"componentUpdate">>)

\* publishComponent that notifies and indexes although the put was rejected
putRejected_notifies(pkg, currentUserPair, op) ==
  LET metadata == [pkg.metadata EXCEPT
                     !.signature = sign(stringify(pkg.metadata, pkg.code), currentUserPair)]
  IN /\ indexedComponents' = updateSearchIndex(indexedComponents, metadata)
     /\ component' = [metadata |-> metadata, code |-> pkg.code]
     /\ reg' = RegOp(op, getComponentPath(pkg.metadata), "rejected", NoPackage,
                     <<"componentUpdate">>)
     /\ UNCHANGED store

\* publishComponent when `await this.gun.put(...)` rejects: the rejection goes
\* to the caller, whose metadata object has the signature set already
putRejected(pkg, currentUserPair, op) ==
  LET metadata == [pkg.metadata EXCEPT
                     !.signature = sign(stringify(pkg.metadata, pkg.code), currentUserPair)]
  IN /\ component' = [metadata |-> metadata, code |-> pkg.code]
     /\ reg' = RegOp(op, getComponentPath(pkg.metadata), "rejected", NoPackage, <<>>)
     /\ UNCHANGED <<store, indexedComponents>>

\* the packages a client passes to publishComponent: a fresh one, or the object
\* it published last (which carries the signature publishComponent has set),
\* as it is or with another version or acl
Republished ==
  IF component = NoPackage THEN {}
  ELSE {[component EXCEPT !.metadata.version = v, !.metadata.acl = acl] :
          v \in Versions, acl \in Acls}

publishComponent(pkg, currentUserPair) ==
  /\ Called
  /\ \/ \E symmetricKey \in SymmetricKeys :
          publish(pkg, currentUserPair,
                  IF pkg.metadata.acl.type = "public" THEN "" ELSE symmetricKey,
                  "publishComponent")
     \/ putRejected(pkg, currentUserPair, "publishComponent")
  /\ UNCHANGED <<regInit, syncVars, dsVars, castVars, peerVars>>

\* updateComponentAccess(componentId, newAcl, currentUserPair)
updateComponentAccess(componentId, newAcl, currentUserPair) ==
  /\ Called
  /\ LET r == getComponentResult(componentId, currentUserPair)
     IN CASE r.result = "ok" ->
               \/ \E symmetricKey \in SymmetricKeys :
                    publish([r.package EXCEPT !.metadata.acl = newAcl], currentUserPair,
                            IF newAcl.type = "public" THEN "" ELSE symmetricKey,
                            "updateComponentAccess")
               \/ putRejected([r.package EXCEPT !.metadata.acl = newAcl],
                              currentUserPair, "updateComponentAccess")
          [] r.result = "null" ->
               /\ reg' = RegOp("updateComponentAccess", <<"">> \o componentId,
                               "NotFound", NoPackage, <<>>)
               /\ UNCHANGED <<store, indexedComponents, component>>
          [] OTHER ->
               /\ reg' = RegOp("updateComponentAccess", <<"">> \o componentId,
                               r.result, NoPackage, <<>>)
               /\ UNCHANGED <<store, indexedComponents, component>>
  /\ UNCHANGED <<regInit, syncVars, dsVars, castVars, peerVars>>

\* the constructor's setupUpdateListeners() after its await: gun.get
\* resolves with the data of the node or null, neither has a map(), so the
\* call throws, the promise rejects and its then(), which would call
\* initializeSearchIndex(), is not run
setupUpdateListeners ==
  /\ regInit = "listening"
  /\ regInit' = "rejected"
  /\ reg' = RegOp("setupUpdateListeners", NoStorePath, "TypeError", NoPackage, <<>>)
  /\ UNCHANGED <<store, indexedComponents, component, calls>>
  /\ UNCHANGED <<syncVars, dsVars, castVars, peerVars>>

\* somebody writes another code under a path of the store
Tamper(path, code) ==
  /\ Called
  /\ store[path].kind # "absent"
  /\ store[path].code # code
  /\ store' = [store EXCEPT ![path].code = code]
  /\ reg' = RegOp("tamper", path, "ok", NoPackage, <<>>)
  /\ UNCHANGED <<indexedComponents, component>>
  /\ UNCHANGED <<regInit, syncVars, dsVars, castVars, peerVars>>

(***************************************************************************)
(* JavaScript values and TypedSchema                                       *)
(*                                                                         *)
(* A value is [kind, prim, fields]: prim is the text of a primitive (and   *)
(* of an array, which is taken whole), fields are the <<key, value>> pairs *)
(* of an object.                                                           *)
(***************************************************************************)
Prim(kind, prim) == [kind |-> kind, prim |-> prim, fields |-> {}]
Undefined == Prim("undefined", "")
Null == Prim("null", "")
Bool(b) == Prim("boolean", b)
Num(n) == Prim("number", n)
Str(s) == Prim("string", s)
Arr(a) == Prim("array", a)
Obj(fields) == [kind |-> "object", prim |-> "", fields |-> fields]
\* a TypeError thrown instead of a value
Threw == Prim("TypeError", "")

\* `key in data`: a TypeError unless data is an object (or an array)
InThrows(data) == data.kind \notin {"object", "array"}
In(key, data) == \E f \in data.fields : f[1] = key
Get(data, key) == (CHOOSE f \in data.fields : f[1] = key)[2]

\* { ...a, ...b } of two objects
Spread(a, b) == Obj({f \in a.fields : ~In(f[1], b)} \cup b.fields)

\* String(value)
String(value) ==
  CASE value.kind = "undefined" -> "undefined"
    [] value.kind = "null" -> "null"
    [] value.kind = "array" -> (IF value.prim = "[]" THEN "" ELSE "1")
    [] value.kind = "object" -> "[object Object]"
    [] OTHER -> value.prim

\* Number(value), for strings that are "", a digit or not a number
Number(value) ==
  CASE value.kind = "undefined" -> "NaN"
    [] value.kind = "null" -> "0"
    [] value.kind = "boolean" -> (IF value.prim = "true" THEN "1" ELSE "0")
    [] value.kind = "number" -> value.prim
    [] value.kind = "string" ->
         (IF value.prim = "" THEN "0"
          ELSE IF value.prim \in {"0", "1", "2", "3", "4", "5", "6", "7", "8", "9"} THEN value.prim ELSE "NaN")
    [] value.kind = "array" -> (IF value.prim = "[]" THEN "0" ELSE "1")
    [] OTHER -> "NaN"

\* Boolean(value)
Boolean(value) ==
  IF \/ value.kind \in {"undefined", "null"}
     \/ value = Bool("false")
     \/ value \in {Num("0"), Num("NaN")}
     \/ value = Str("")
  THEN "false" ELSE "true"

\* a SchemaDefinition is a set of <<key, type>>; a type is the name of a
\* kind, or a nested SchemaDefinition (name "schema")
Type(name) == [name |-> name, nested |-> {}]
Nested(schema) == [name |-> "schema", nested |-> schema]

RECURSIVE castObject(_, _)
RECURSIVE castValue(_, _)

\* castValue whose boolean case negates
castValue_negates(value, type) ==
  CASE type.name = "string" -> Str(String(value))
    [] type.name = "number" -> Num(Number(value))
    [] type.name = "boolean" -> Bool(IF Boolean(value) = "true" THEN "false" ELSE "true")
    [] type.name = "object" ->
         (IF value.kind \in {"object", "array", "null"} THEN value ELSE Obj({}))
    [] type.name = "array" -> (IF value.kind = "array" THEN value ELSE Arr("[]"))
    [] type.name = "schema" -> castObject(value, type.nested)
    [] OTHER -> value

\* castValue(value, type)
castValue(value, type) ==
  CASE type.name = "string" -> Str(String(value))
    [] type.name = "number" -> Num(Number(value))
    [] type.name = "boolean" -> Bool(Boolean(value))
    [] type.name = "object" ->
         (IF value.kind \in {"object", "array", "null"} THEN value ELSE Obj({}))
    [] type.name = "array" -> (IF value.kind = "array" THEN value ELSE Arr("[]"))
    [] type.name = "schema" -> castObject(value, type.nested)
    [] OTHER -> value

\* castObject(data, schema): the loop over the schema throws at its first
\* `key in data` when data is no object
castObject(data, schema) ==
  IF schema = {} THEN Obj({})
  ELSE IF InThrows(data) THEN Threw
  ELSE LET result == {<<e[1], castValue(Get(data, e[1]), e[2])>> :
                        e \in {d \in schema : In(d[1], data)}}
       IN IF \E f \in result : f[2] = Threw THEN Threw ELSE Obj(result)

\* cast(data) of new TypedSchema(schema)
cast(schema, data) == castObject(data, schema)

RECURSIVE getDefaultValueForSchema(_)
\* getDefaultValueForType whose default for 'object' is null
getDefaultValueForType_null(type) ==
  CASE type.name = "string" -> Str("")
    [] type.name = "number" -> Num("0")
    [] type.name = "boolean" -> Bool("false")
    [] type.name = "array" -> Arr("[]")
    [] type.name = "schema" -> getDefaultValueForSchema(type.nested)
    [] OTHER -> Null

\* getDefaultValueForType(type)
getDefaultValueForType(type) ==
  CASE type.name = "string" -> Str("")
    [] type.name = "number" -> Num("0")
    [] type.name = "boolean" -> Bool("false")
    [] type.name = "object" -> Obj({})
    [] type.name = "array" -> Arr("[]")
    [] type.name = "schema" -> getDefaultValueForSchema(type.nested)
    [] OTHER -> Null

\* getDefaultValueForSchema(schema)
getDefaultValueForSchema(schema) ==
  Obj({<<e[1], getDefaultValueForType(e[2])>> : e \in schema})

RECURSIVE validateObject(_, _)
RECURSIVE validateValue(_, _)
\* validateValue(value, type)
validateValue(value, type) ==
  CASE type.name = "string" -> value.kind = "string"
    [] type.name = "number" -> value.kind = "number"
    [] type.name = "boolean" -> value.kind = "boolean"
    [] type.name = "object" -> value.kind \in {"object", "array"}
    [] type.name = "array" -> value.kind = "array"
    [] type.name = "schema" -> validateObject(value, type.nested)
    [] OTHER -> FALSE

\* validateObject(data, schema)
validateObject(data, schema) ==
  /\ data.kind \in {"object", "array"}
  /\ \A e \in schema : In(e[1], data) /\ validateValue(Get(data, e[1]), e[2])

RECURSIVE Declarable(_)
\* a SchemaDefinition as the type declares it: every field 'string',
\* 'number', 'boolean', 'object', 'array' or a SchemaDefinition
Declarable(schema) ==
  \A e \in schema :
    \/ e[2].name \in {"string", "number", "boolean", "object", "array"}
    \/ e[2].name = "schema" /\ Declarable(e[2].nested)

\* the values and the schemas cast is tried on
Leaves ==
  {Undefined, Null, Bool("true"), Bool("false"), Num("0"), Num("1"), Num("NaN"),
   Str(""), Str("1"), Str("abc"), Arr("[]"), Arr("[1]")}
\* the objects over a set of keys, every field absent or one of the values
ObjectsOver(keys, values) ==
  {Obj({<<k, f[k]>> : k \in {j \in keys : f[j] # Threw}}) :
     f \in [keys -> values \cup {Threw}]}
CastInputs == Leaves \cup ObjectsOver({"a", "b"}, Leaves \cup ObjectsOver({"a"}, Leaves))
\* the schemas over a set of keys, every key absent or of one of the types
SchemasOver(keys, types) ==
  {{<<k, f[k]>> : k \in {j \in keys : f[j] # Type("absent")}} :
     f \in [keys -> types \cup {Type("absent")}]}
CastSchemas ==
  LET types == {Type(n) : n \in {"string", "number", "boolean", "object", "array", "date"}}
  IN SchemasOver({"a", "b"}, types \cup {Nested(s) : s \in SchemasOver({"a"}, types)})

\* cast applied once, and once more to its result
CastOnce ==
  /\ castStep = "input"
  /\ castStep' = "once"
  /\ castOutput' = cast(castSchema, castInput)
  /\ UNCHANGED <<castSchema, castInput>>
  /\ UNCHANGED <<syncVars, regVars, dsVars, calls, peerVars>>

CastTwice ==
  /\ castStep = "once"
  /\ castOutput # Threw
  /\ castStep' = "twice"
  /\ castOutput' = cast(castSchema, castOutput)
  /\ UNCHANGED <<castSchema, castInput>>
  /\ UNCHANGED <<syncVars, regVars, dsVars, calls, peerVars>>

\* getDefaultValue(), and validate(data) of it
DefaultTaken ==
  /\ castStep = "input"
  /\ castStep' = "default"
  /\ castOutput' = getDefaultValueForSchema(castSchema)
  /\ UNCHANGED <<castSchema, castInput>>
  /\ UNCHANGED <<syncVars, regVars, dsVars, calls, peerVars>>

DefaultValidated ==
  /\ castStep = "default"
  /\ castStep' = "validated"
  /\ castInput' = castOutput
  /\ castOutput' = Bool(IF validateObject(castOutput, castSchema) THEN "true" ELSE "false")
  /\ UNCHANGED castSchema
  /\ UNCHANGED <<syncVars, regVars, dsVars, calls, peerVars>>

(***************************************************************************)
(* DistributedState                                                        *)
(*                                                                         *)
(* One handle on one path.  A call that waits for the store holds a slot   *)
(* of dsCalls: pc "get" while its gunDataProvider.get is pending, pc "put" *)
(* while its gunDataProvider.put is.                                       *)
(***************************************************************************)
MaxInFlight == 2
Slots == 1..MaxInFlight

\* the schema of the handle
StateSchema == {<<"a", Type("number")>>, <<"b", Type("object")>>}

IdleCall == [op |-> "none", pc |-> "idle", updater |-> "none", data |-> Undefined]
Call(op, pc, updater, data) == [op |-> op, pc |-> pc, updater |-> updater, data |-> data]
DsOp(op, result, value, events) ==
  [op |-> op, result |-> result, value |-> value, events |-> events]

\* a call takes the least free slot
HasFreeSlot == \E s \in Slots : dsCalls[s].pc = "idle"
Pending(call) ==
  LET free == CHOOSE s \in Slots :
                dsCalls[s].pc = "idle" /\ \A t \in 1..(s - 1) : dsCalls[t].pc # "idle"
  IN [dsCalls EXCEPT ![free] = call]
Settled(s) == [dsCalls EXCEPT ![s] = IdleCall]

\* node.put(data): the fields of data are merged into the node
GunPut(stored, data) == IF stored = Null THEN data ELSE Spread(stored, data)

\* the updater functions the callers pass: current => ({ a: current.a + k })
Updaters == {"addOne", "addTwo"}
Plus(value, k) ==
  IF value.kind = "number" /\ value.prim # "NaN"
  THEN Num(ToString((CHOOSE n \in 0..(2 * MaxCalls + 3) : ToString(n) = value.prim) + k))
  ELSE Num("NaN")
Updated(updater, current) ==
  LET a == IF In("a", current) THEN Get(current, "a") ELSE Undefined
  IN Obj({<<"a", Plus(a, IF updater = "addOne" THEN 1 ELSE 2)>>})

\* the event updateState emits
stateChanged(newState, oldState) == <<"stateChanged", newState, oldState>>

\* what callers pass to set, what the constructor is seeded with, what the
\* store holds at first and what remote peers write
SetInputs ==
  {Obj({<<"a", Num("1")>>}), Obj({<<"a", Str("2")>>, <<"b", Null>>, <<"c", Str("abc")>>}), Null}
Seeds == {Undefined, Obj({<<"a", Num("1")>>, <<"c", Str("abc")>>})}
StoredValues == {Null, Obj({<<"a", Num("0")>>})}
RemoteInputs == {Obj({<<"a", Num("0")>>, <<"c", Str("xyz")>>})}

\* constructor(gunDataProvider, path, schema, initialState)
constructed(initialState) ==
  IF initialState = Undefined THEN getDefaultValueForSchema(StateSchema)
  ELSE Spread(getDefaultValueForSchema(StateSchema), initialState)

\* getCurrentState()
getCurrentState == dsState

\* set whose cache changes before the write is accepted
set_optimistic(data) ==
  LET validData == cast(StateSchema, data)
  IN IF validData = Threw
     THEN /\ dsLast' = DsOp("set", "threw", Undefined, <<>>)
          /\ UNCHANGED <<dsStore, dsState, dsCalls, dsApplied>>
     ELSE /\ HasFreeSlot
          /\ dsCalls' = Pending(Call("set", "put", "none", validData))
          /\ dsState' = Spread(dsState, validData)
          /\ dsLast' = DsOp("set", "called", Undefined, <<stateChanged(dsState', dsState)>>)
          /\ UNCHANGED <<dsStore, dsApplied>>

\* set(data), up to its await of gunDataProvider.put
set(data) ==
  LET validData == cast(StateSchema, data)
  IN IF validData = Threw
     THEN /\ dsLast' = DsOp("set", "threw", Undefined, <<>>)
          /\ UNCHANGED <<dsStore, dsState, dsCalls, dsApplied>>
     ELSE /\ HasFreeSlot
          /\ dsCalls' = Pending(Call("set", "put", "none", validData))
          /\ dsLast' = DsOp("set", "called", Undefined, <<>>)
          /\ UNCHANGED <<dsStore, dsState, dsApplied>>

\* reset(): set(getDefaultValue())
reset ==
  /\ HasFreeSlot
  /\ dsCalls' = Pending(Call("reset", "put", "none",
                             cast(StateSchema, getDefaultValueForSchema(StateSchema))))
  /\ dsLast' = DsOp("reset", "called", Undefined, <<>>)
  /\ UNCHANGED <<dsStore, dsState, dsApplied>>

\* a write that applies the updater to the value stored when it is accepted
setResolves_rereads(s) ==
  LET data == IF dsCalls[s].updater = "none" THEN dsCalls[s].data
              ELSE cast(StateSchema, Updated(dsCalls[s].updater, cast(StateSchema, dsStore)))
  IN /\ dsCalls[s].pc = "put"
     /\ dsStore' = GunPut(dsStore, data)
     /\ dsState' = Spread(dsState, data)
     /\ dsCalls' = Settled(s)
     /\ dsApplied' = Append(dsApplied, dsCalls[s].updater)
     /\ dsLast' = DsOp(dsCalls[s].op, "ok", Undefined, <<stateChanged(dsState', dsState)>>)

\* the store accepts the write: set goes on with updateState(validData)
setResolves(s) ==
  /\ dsCalls[s].pc = "put"
  /\ dsStore' = GunPut(dsStore, dsCalls[s].data)
  /\ dsState' = Spread(dsState, dsCalls[s].data)
  /\ dsCalls' = Settled(s)
  /\ dsApplied' = Append(dsApplied, dsCalls[s].updater)
  /\ dsLast' = DsOp(dsCalls[s].op, "ok", Undefined, <<stateChanged(dsState', dsState)>>)

\* the store refuses the write: the await in set throws
setRejects(s) ==
  /\ dsCalls[s].pc = "put"
  /\ dsCalls' = Settled(s)
  /\ dsLast' = DsOp(dsCalls[s].op, "rejected", Undefined, <<>>)
  /\ UNCHANGED <<dsStore, dsState, dsApplied>>

\* get(), update(updater), transaction(transactionFn), refresh(), up to
\* their await of gunDataProvider.get
reads(op, updater) ==
  /\ HasFreeSlot
  /\ dsCalls' = Pending(Call(op, "get", updater, Undefined))
  /\ dsLast' = DsOp(op, "called", Undefined, <<>>)
  /\ UNCHANGED <<dsStore, dsState, dsApplied>>

\* get() after its await: the cast of what was read
getResolves(s) ==
  LET value == cast(StateSchema, dsStore)
  IN /\ dsCalls[s] = Call("get", "get", "none", Undefined)
     /\ dsCalls' = Settled(s)
     /\ dsLast' = DsOp("get", IF value = Threw THEN "threw" ELSE "ok", value, <<>>)
     /\ UNCHANGED <<dsStore, dsState, dsApplied>>

\* what a call does between the end of a read and its next await: the
\* result so far and the call as it waits next
Went(result, call) == [result |-> result, call |-> call]

\* update(updater) after `await this.get()`, up to the await in set
update(call, stored) ==
  LET currentState == cast(StateSchema, stored)
  IN IF currentState = Threw THEN Went("threw", IdleCall)
     ELSE LET validData == cast(StateSchema, Updated(call.updater, currentState))
          IN IF validData = Threw THEN Went("threw", IdleCall)
             ELSE Went("called", Call(call.op, "put", call.updater, validData))

\* a transaction that gives up when the cache is not what it read
transaction_checked(call, stored) ==
  LET currentState == cast(StateSchema, stored)
  IN IF currentState = Threw THEN Went("threw", IdleCall)
     ELSE IF Spread(dsState, currentState) # dsState THEN Went("threw", IdleCall)
     ELSE LET validData == cast(StateSchema, Updated(call.updater, currentState))
          IN IF validData = Threw THEN Went("threw", IdleCall)
             ELSE Went("called", Call(call.op, "put", call.updater, validData))

\* transaction(transactionFn) after `await this.get()`, up to the await in set
transaction(call, stored) ==
  LET currentState == cast(StateSchema, stored)
  IN IF currentState = Threw THEN Went("threw", IdleCall)
     ELSE LET validData == cast(StateSchema, Updated(call.updater, currentState))
          IN IF validData = Threw THEN Went("threw", IdleCall)
             ELSE Went("called", Call(call.op, "put", call.updater, validData))

Goes(s, went) ==
  /\ dsCalls' = [dsCalls EXCEPT ![s] = went.call]
  /\ dsLast' = DsOp(dsCalls[s].op, went.result, Undefined, <<>>)
  /\ UNCHANGED <<dsStore, dsState, dsApplied>>

updateResumes(s) ==
  /\ dsCalls[s].op = "update" /\ dsCalls[s].pc = "get"
  /\ Goes(s, update(dsCalls[s], dsStore))

transactionResumes(s) ==
  /\ dsCalls[s].op = "transaction" /\ dsCalls[s].pc = "get"
  /\ Goes(s, transaction(dsCalls[s], dsStore))

\* setStateQuiet(newState)
setStateQuiet(newState) == Spread(dsState, newState)

\* refresh() after its await
refreshResumes(s) ==
  LET validData == cast(StateSchema, dsStore)
  IN /\ dsCalls[s].op = "refresh" /\ dsCalls[s].pc = "get"
     /\ dsCalls' = Settled(s)
     /\ IF validData = Threw
        THEN /\ dsLast' = DsOp("refresh", "threw", Undefined, <<>>)
             /\ UNCHANGED dsState
        ELSE /\ dsState' = setStateQuiet(validData)
             /\ dsLast' = DsOp("refresh", "ok", Undefined, <<stateChanged(dsState', Obj({}))>>)
     /\ UNCHANGED <<dsStore, dsApplied>>

\* a remote peer writes under the path and the listener of setupListeners
\* is told the data of the node
onUpdate(data) ==
  LET validData == cast(StateSchema, GunPut(dsStore, data))
  IN /\ dsStore' = GunPut(dsStore, data)
     /\ dsState' = Spread(dsState, validData)
     /\ dsLast' = DsOp("onUpdate", "ok", Undefined, <<stateChanged(dsState', dsState)>>)
     /\ UNCHANGED <<dsCalls, dsApplied>>

(***************************************************************************)
(* PeerManager                                                             *)
(*                                                                         *)
(* peers is the Map of the manager: its PeerInfo entries in insertion      *)
(* order.  peerSeen keeps, for every id, the event that came last.         *)
(***************************************************************************)
PeerIds == {"p1", "p2", "p3"}
PeerUrls == {"u1", "u2"}
NoPeer == "none"

PeerOp(op, id, events) == [op |-> op, id |-> id, events |-> events]
PeerInfo(peerId, peerUrl) == [id |-> peerId, url |-> peerUrl, lastSeen |-> calls + 1]
PeerIdsOf(entries) == {entries[i].id : i \in 1..Len(entries)}

\* addPeer that appends an entry whatever the Map holds
addPeer_pushes(entries, peerId, peerUrl) == Append(entries, PeerInfo(peerId, peerUrl))

\* addPeer(peerId, peerUrl): this.peers.set(peerId, {...})
addPeer(entries, peerId, peerUrl) ==
  IF peerId \in PeerIdsOf(entries)
  THEN [i \in 1..Len(entries) |->
          IF entries[i].id = peerId THEN PeerInfo(peerId, peerUrl) ELSE entries[i]]
  ELSE Append(entries, PeerInfo(peerId, peerUrl))

\* removePeer(peerId): this.peers.delete(peerId)
removePeer(entries, peerId) == SelectSeq(entries, LAMBDA e : e.id # peerId)

\* connectToPeer(peerId, peerUrl) and handlePeerConnected(peer)
Connected(op, peerId, peerUrl) ==
  /\ Called
  /\ peers' = addPeer(peers, peerId, peerUrl)
  /\ peerSeen' = [peerSeen EXCEPT ![peerId] = "connect"]
  /\ peerLast' = PeerOp(op, peerId, <<<<"peerConnected", peerId, peerUrl>>>>)
  /\ UNCHANGED <<analysis, syncVars, regVars, dsVars, castVars>>

connectToPeer(peerId, peerUrl) == Connected("connectToPeer", peerId, peerUrl)
handlePeerConnected(peerId, peerUrl) == Connected("handlePeerConnected", peerId, peerUrl)

\* disconnectFromPeer(peerId) and handlePeerDisconnected(peer)
Disconnected(op, peerId) ==
  /\ Called
  /\ peers' = removePeer(peers, peerId)
  /\ peerSeen' = [peerSeen EXCEPT ![peerId] = "disconnect"]
  /\ peerLast' = PeerOp(op, peerId, <<<<"peerDisconnected", peerId, "">>>>)
  /\ UNCHANGED <<analysis, syncVars, regVars, dsVars, castVars>>

disconnectFromPeer(peerId) == Disconnected("disconnectFromPeer", peerId)
handlePeerDisconnected(peerId) == Disconnected("handlePeerDisconnected", peerId)

\* stop() of the PeerManager: this.peers.clear()
stopPeers ==
  /\ Called
  /\ peers' = <<>>
  /\ peerSeen' = [id \in PeerIds |-> "stop"]
  /\ peerLast' = PeerOp("stop", NoPeer, <<<<"stopped", "", "">>>>)
  /\ UNCHANGED <<analysis, syncVars, regVars, dsVars, castVars>>

\* generateNetworkGraph(): a node per peer, an edge for every ordered pair
\* of different peers
generateNetworkGraph(entries) ==
  [nodes |-> entries,
   edges |-> {e \in PeerIdsOf(entries) \X PeerIdsOf(entries) : e[1] # e[2]}]

\* the connectionCounts of findCentralPeers: every edge counts for its
\* source and for its target
connectionCounts(graph, peerId) ==
  Cardinality({e \in graph.edges : e[1] = peerId})
    + Cardinality({e \in graph.edges : e[2] = peerId})

\* a quotient a / b as the pair <<a, b>>; 0 / 0 is NaN and greater than
\* nothing
Quotient(a, b) == <<a, b>>
Greater(count, quotient) == quotient[2] > 0 /\ count * quotient[2] > quotient[1]

\* findCentralPeers(graph): the keys of connectionCounts, which come in the
\* order of the nodes, with a count above edges.length / nodes.length
findCentralPeers(graph) ==
  LET averageConnections == Quotient(Cardinality(graph.edges), Len(graph.nodes))
  IN SelectSeq([i \in 1..Len(graph.nodes) |-> graph.nodes[i].id],
               LAMBDA id : /\ \E e \in graph.edges : id \in {e[1], e[2]}
                           /\ Greater(connectionCounts(graph, id), averageConnections))

NoAnalysis ==
  [totalPeers |-> 0, totalConnections |-> 0, averageConnections |-> Quotient(0, 0),
   centralPeers |-> <<>>]

\* analyzeTopology()
analyzeTopology ==
  LET graph == generateNetworkGraph(peers)
  IN /\ Called
     /\ analysis' = [totalPeers |-> Len(graph.nodes),
                     totalConnections |-> Cardinality(graph.edges),
                     averageConnections |->
                       Quotient(Cardinality(graph.edges), Len(graph.nodes)),
                     centralPeers |-> findCentralPeers(graph)]
     /\ peerLast' = PeerOp("analyzeTopology", NoPeer, <<>>)
     /\ UNCHANGED <<peers, peerSeen, syncVars, regVars, dsVars, castVars>>

\* no PeerManager
PeerIdle ==
  /\ peers = <<>>
  /\ peerSeen = [id \in PeerIds |-> "none"]
  /\ peerLast = PeerOp("new", NoPeer, <<>>)
  /\ analysis = NoAnalysis

\* the sync engine and the registry after construction
SyncInit ==
  /\ syncKeys = <<>>
  /\ syncStatus = [p \in Paths |-> Blank]
  /\ syncQueue = <<>>
  /\ isSyncing = FALSE
  /\ distributedStates = {}
  /\ drains = [d \in DrainIds |-> IdleDrain]
  /\ force = IdleForce
  /\ last = Op("new", NoPath, <<>>)
  /\ calls = 0

RegistryInit ==
  /\ store = [path \in StorePaths |-> Absent]
  /\ indexedComponents = <<>>
  /\ component = NoPackage
  /\ reg = RegOp("new", NoStorePath, "ok", NoPackage, <<>>)
  /\ regInit = "rejected"

\* no DistributedState handle
DsIdle ==
  /\ dsStore = Null
  /\ dsState = Obj({})
  /\ dsCalls = [s \in Slots |-> IdleCall]
  /\ dsApplied = <<>>
  /\ dsNotes = {}
  /\ dsLast = DsOp("new", "ok", Undefined, <<>>)

\* no cast
CastIdle ==
  /\ castSchema = {}
  /\ castInput = Undefined
  /\ castOutput = Undefined
  /\ castStep = "input"

\* a schema and a value to cast
CastInit ==
  /\ SyncInit /\ RegistryInit /\ DsIdle /\ PeerIdle
  /\ castSchema \in CastSchemas
  /\ castInput \in CastInputs
  /\ castOutput = Undefined
  /\ castStep = "input"

\* a remote peer writes under the path
remoteWrite(data) ==
  /\ dsStore' = GunPut(dsStore, data)
  /\ dsLast' = DsOp("remoteWrite", "ok", Undefined, <<>>)
  /\ UNCHANGED <<dsState, dsCalls, dsApplied>>

\* the listener of setupListeners is told a change of the node, with the
\* data the node had after it; dropped says whether it is told once more
notified(data, dropped) ==
  LET validData == cast(StateSchema, data)
  IN /\ data \in dsNotes
     /\ dsNotes' = IF dropped THEN dsNotes \ {data} ELSE dsNotes
     /\ dsState' = Spread(dsState, validData)
     /\ dsLast' = DsOp("onUpdate", "ok", Undefined, <<stateChanged(dsState', dsState)>>)
     /\ UNCHANGED <<dsStore, dsCalls, dsApplied>>

\* every change of the node, local or remote, is notified at some time
Noted == dsNotes' = dsNotes \cup {dsStore'}

\* an unseeded handle on a path; the data the node has is notified
ConvergeInit ==
  /\ SyncInit /\ RegistryInit /\ CastIdle /\ PeerIdle
  /\ dsStore \in {Null, Obj({<<"a", Num("0")>>}), Obj({<<"a", Num("3")>>})}
  /\ dsState = constructed(Undefined)
  /\ dsCalls = [s \in Slots |-> IdleCall]
  /\ dsApplied = <<>>
  /\ dsNotes = IF dsStore = Null THEN {} ELSE {dsStore}
  /\ dsLast = DsOp("new", "ok", Undefined, <<>>)

ConvergeNext ==
  \/ \E data \in SetInputs :
       Called /\ set(data) /\ UNCHANGED <<dsNotes, syncVars, regVars, castVars, peerVars>>
  \/ \E updater \in Updaters :
       Called /\ reads("update", updater) /\ UNCHANGED <<dsNotes, syncVars, regVars, castVars, peerVars>>
  \/ \E data \in RemoteInputs :
       Called /\ remoteWrite(data) /\ Noted /\ UNCHANGED <<syncVars, regVars, castVars, peerVars>>
  \/ \E s \in Slots : setResolves(s) /\ Noted /\ UNCHANGED <<syncVars, regVars, castVars, calls, peerVars>>
  \/ \E s \in Slots : setRejects(s) /\ UNCHANGED <<dsNotes, syncVars, regVars, castVars, calls, peerVars>>
  \/ \E s \in Slots :
       updateResumes(s) /\ UNCHANGED <<dsNotes, syncVars, regVars, castVars, calls, peerVars>>
  \/ \E data \in dsNotes, dropped \in BOOLEAN :
       notified(data, dropped) /\ UNCHANGED <<syncVars, regVars, castVars, calls, peerVars>>

ConvergeSpec == ConvergeInit /\ [][ConvergeNext]_vars

\* a handle on a path, seeded or not, over a store with or without data
StateInit ==
  /\ SyncInit /\ RegistryInit /\ CastIdle /\ PeerIdle
  /\ dsStore \in StoredValues
  /\ \E initialState \in Seeds : dsState = constructed(initialState)
  /\ dsCalls = [s \in Slots |-> IdleCall]
  /\ dsApplied = <<>>
  /\ dsNotes = {}
  /\ dsLast = DsOp("new", "ok", Undefined, <<>>)

StateNext ==
  \/ \E data \in SetInputs : Called /\ set(data) /\ UNCHANGED <<dsNotes, syncVars, regVars, castVars, peerVars>>
  \/ Called /\ reset /\ UNCHANGED <<dsNotes, syncVars, regVars, castVars, peerVars>>
  \/ Called /\ reads("get", "none") /\ UNCHANGED <<dsNotes, syncVars, regVars, castVars, peerVars>>
  \/ Called /\ reads("refresh", "none") /\ UNCHANGED <<dsNotes, syncVars, regVars, castVars, peerVars>>
  \/ \E updater \in Updaters :
       Called /\ reads("update", updater) /\ UNCHANGED <<dsNotes, syncVars, regVars, castVars, peerVars>>
  \/ \E updater \in Updaters :
       Called /\ reads("transaction", updater) /\ UNCHANGED <<dsNotes, syncVars, regVars, castVars, peerVars>>
  \/ \E data \in RemoteInputs : Called /\ onUpdate(data) /\ UNCHANGED <<dsNotes, syncVars, regVars, castVars, peerVars>>
  \/ \E s \in Slots : setResolves(s) /\ UNCHANGED <<dsNotes, syncVars, regVars, castVars, calls, peerVars>>
  \/ \E s \in Slots : setRejects(s) /\ UNCHANGED <<dsNotes, syncVars, regVars, castVars, calls, peerVars>>
  \/ \E s \in Slots : getResolves(s) /\ UNCHANGED <<dsNotes, syncVars, regVars, castVars, calls, peerVars>>
  \/ \E s \in Slots : updateResumes(s) /\ UNCHANGED <<dsNotes, syncVars, regVars, castVars, calls, peerVars>>
  \/ \E s \in Slots : transactionResumes(s) /\ UNCHANGED <<dsNotes, syncVars, regVars, castVars, calls, peerVars>>
  \/ \E s \in Slots : refreshResumes(s) /\ UNCHANGED <<dsNotes, syncVars, regVars, castVars, calls, peerVars>>

StateSpec == StateInit /\ [][StateNext]_vars

CastNext == CastOnce \/ CastTwice

\* a schema to take the default value of
DefaultInit ==
  /\ SyncInit /\ RegistryInit /\ DsIdle /\ PeerIdle
  /\ castSchema \in CastSchemas
  /\ castInput = Undefined
  /\ castOutput = Undefined
  /\ castStep = "input"

DefaultNext == DefaultTaken \/ DefaultValidated

DefaultSpec == DefaultInit /\ [][DefaultNext]_vars

PeerInit == SyncInit /\ RegistryInit /\ DsIdle /\ CastIdle /\ PeerIdle

PeerNext ==
  \/ \E peerId \in PeerIds, peerUrl \in PeerUrls : connectToPeer(peerId, peerUrl)
  \/ \E peerId \in PeerIds, peerUrl \in PeerUrls : handlePeerConnected(peerId, peerUrl)
  \/ \E peerId \in PeerIds : disconnectFromPeer(peerId)
  \/ \E peerId \in PeerIds : handlePeerDisconnected(peerId)
  \/ stopPeers
  \/ analyzeTopology

PeerSpec == PeerInit /\ [][PeerNext]_vars

CastSpec == CastInit /\ [][CastNext]_vars

Init ==
  /\ DsIdle /\ CastIdle /\ PeerIdle
  /\ store = [path \in StorePaths |-> Absent]
  /\ indexedComponents = <<>>
  /\ component = NoPackage
  /\ reg = RegOp("new", NoStorePath, "ok", NoPackage, <<>>)
  /\ regInit = "rejected"
  /\ syncKeys = <<>>
  /\ syncStatus = [p \in Paths |-> Blank]
  /\ syncQueue = <<>>
  /\ isSyncing = FALSE
  /\ distributedStates = {}
  /\ drains = [d \in DrainIds |-> IdleDrain]
  /\ force = IdleForce
  /\ last = Op("new", NoPath, <<>>)
  /\ calls = 0

Next ==
  \/ \E p \in MainPaths, pr \in SyncPriority : Start(p, pr) /\ UNCHANGED <<regVars, dsVars, castVars, peerVars>>
  \/ \E p \in MainPaths : stopSync(p) /\ UNCHANGED <<regVars, dsVars, castVars, peerVars>>
  \/ \E p \in MainPaths : Notify(p) /\ UNCHANGED <<regVars, dsVars, castVars, peerVars>>
  \/ \E p \in MainPaths : pauseSync(p) /\ UNCHANGED <<regVars, dsVars, castVars, peerVars>>
  \/ \E p \in MainPaths : resumeSync(p) /\ UNCHANGED <<regVars, dsVars, castVars, peerVars>>
  \/ \E p \in MainPaths : persistState(p) /\ UNCHANGED <<regVars, dsVars, castVars, peerVars>>
  \/ \E p \in MainPaths : syncState(p) /\ UNCHANGED <<regVars, dsVars, castVars, peerVars>>
  \/ \E p \in MainPaths : forceSync(p) /\ UNCHANGED <<regVars, dsVars, castVars, peerVars>>
  \/ forceSyncAll /\ UNCHANGED <<regVars, dsVars, castVars, peerVars>>
  \/ stop /\ UNCHANGED <<regVars, dsVars, castVars, peerVars>>
  \/ \E d \in DrainIds : DrainNext(d) /\ UNCHANGED <<regVars, dsVars, castVars, peerVars>>
  \/ \E d \in DrainIds : FetchFails(d) /\ UNCHANGED <<regVars, dsVars, castVars, peerVars>>
  \/ \E d \in DrainIds : FetchSucceeds(d) /\ UNCHANGED <<regVars, dsVars, castVars, peerVars>>
  \/ ForceFetchFails /\ UNCHANGED <<regVars, dsVars, castVars, peerVars>>
  \/ ForceFetchSucceeds /\ UNCHANGED <<regVars, dsVars, castVars, peerVars>>

Spec == Init /\ [][Next]_vars

\* The registry: packages are published, fetched, re-published and tampered with
RegistryNext ==
  \/ \E pkg \in FreshPackages \cup Republished, pair \in Publishers :
       publishComponent(pkg, pair)
  \/ \E address \in Addresses, user \in Users : getComponent(address, user)
  \/ \E address \in Addresses, acl \in Acls, user \in Users \cup Publishers :
       updateComponentAccess(address, acl, user)
  \/ \E path \in StorePaths, code \in Codes : Tamper(path, code)

RegistrySpec == Init /\ [][RegistryNext]_vars

\* The registry from its construction on: the promise of the constructor is
\* pending at first and settles at some time; components are published
IndexInit ==
  /\ SyncInit /\ DsIdle /\ CastIdle /\ PeerIdle
  /\ store = [path \in StorePaths |-> Absent]
  /\ indexedComponents = <<>>
  /\ component = NoPackage
  /\ reg = RegOp("new", NoStorePath, "ok", NoPackage, <<>>)
  /\ regInit = "listening"

IndexNext ==
  \/ setupUpdateListeners
  \/ \E pkg \in FreshPackages \cup Republished, pair \in Publishers :
       publishComponent(pkg, pair)

IndexSpec == IndexInit /\ [][IndexNext]_vars /\ WF_vars(setupUpdateListeners)

\* The queue alone: paths are started and updated, never stopped, paused or forced
QueueNext ==
  \/ \E p \in Paths, pr \in SyncPriority : Start(p, pr) /\ UNCHANGED <<regVars, dsVars, castVars, peerVars>>
  \/ \E p \in Paths : Notify(p) /\ UNCHANGED <<regVars, dsVars, castVars, peerVars>>
  \/ \E d \in DrainIds : DrainNext(d) /\ UNCHANGED <<regVars, dsVars, castVars, peerVars>>
  \/ \E d \in DrainIds : FetchFails(d) /\ UNCHANGED <<regVars, dsVars, castVars, peerVars>>
  \/ \E d \in DrainIds : FetchSucceeds(d) /\ UNCHANGED <<regVars, dsVars, castVars, peerVars>>

QueueSpec == Init /\ [][QueueNext]_vars

\* The order of the queue: the client starts the paths of StartOrder one after
\* the other, each once and with either of two priorities (paths differ by
\* their names only, so another order of names shows nothing new); the store
\* notifies updates, and every fetch succeeds
StartOrder == <<"d", "a", "b", "c">>
FifoPriorities == {Low, High}
StartInOrder(priority) ==
  /\ Len(syncKeys) < Len(StartOrder)
  /\ StartFreely(StartOrder[Len(syncKeys) + 1], priority)

FifoNext ==
  \/ \E pr \in FifoPriorities : StartInOrder(pr) /\ UNCHANGED <<regVars, dsVars, castVars, peerVars>>
  \/ \E p \in Paths : Notify(p) /\ UNCHANGED <<regVars, dsVars, castVars, peerVars>>
  \/ \E d \in DrainIds : DrainNext(d) /\ UNCHANGED <<regVars, dsVars, castVars, peerVars>>
  \/ \E d \in DrainIds : FetchSucceeds(d) /\ UNCHANGED <<regVars, dsVars, castVars, peerVars>>

FifoSpec == Init /\ [][FifoNext]_vars

\* Watched paths and their updates, with the event loop running every
\* continuation that is ready and every fetch of the store completing
FairNext ==
  \/ \E p \in MainPaths, pr \in SyncPriority : Start(p, pr) /\ UNCHANGED <<regVars, dsVars, castVars, peerVars>>
  \/ \E p \in MainPaths : Notify(p) /\ UNCHANGED <<regVars, dsVars, castVars, peerVars>>
  \/ \E d \in DrainIds : DrainNext(d) /\ UNCHANGED <<regVars, dsVars, castVars, peerVars>>
  \/ \E d \in DrainIds : FetchFails(d) /\ UNCHANGED <<regVars, dsVars, castVars, peerVars>>
  \/ \E d \in DrainIds : FetchSucceeds(d) /\ UNCHANGED <<regVars, dsVars, castVars, peerVars>>

FairSpec ==
  /\ Init
  /\ [][FairNext]_vars
  /\ WF_vars(\E d \in DrainIds : DrainNext(d) /\ UNCHANGED <<regVars, dsVars, castVars, peerVars>>)
  /\ WF_vars(\E d \in DrainIds : (FetchFails(d) \/ FetchSucceeds(d)) /\ UNCHANGED <<regVars, dsVars, castVars, peerVars>>)

(***************************************************************************)
(* Properties                                                              *)
(***************************************************************************)
Queued(p) == \E i \in 1..Len(syncQueue) : syncQueue[i].value = p
Fetching == {d \in DrainIds : drains[d].pc = "fetch"}
ActiveDrains == {d \in DrainIds : drains[d].pc # "idle"}
InFlight == Cardinality(Fetching) + (IF force.pc = "fetch" THEN 1 ELSE 0)

\* C1: whenever the drain loop dequeues a path, no entry left waiting in the
\* queue has a strictly higher priority (High > Normal > Low) than the entry
\* it dequeued.
C1_HighestPriorityFirst ==
  last.dequeued # NoEntry =>
    \A i \in 1..Len(syncQueue) :
      priorityValues(syncQueue[i].priority) <= priorityValues(last.dequeued.priority)

\* C2: the sync queue holds at most one entry per path in every reachable
\* state; a remote update re-prioritises the entry and adds none.
C2_OneEntryPerPath ==
  \A i, j \in 1..Len(syncQueue) : syncQueue[i].value = syncQueue[j].value => i = j

\* a remote update was counted on a path whose entry is waiting in the queue
C2_Witness ==
  /\ last.op = "handleUpdate"
  /\ last.events = <<"dataUpdated">>
  /\ Queued(last.path)

\* C3: pendingChanges of a watched path is never negative.
C3_PendingNeverNegative ==
  \A p \in Paths : Has(p) => syncStatus[p].pendingChanges >= 0

\* C4: immediately after a successful queued reconciliation of a path, the
\* path's pendingChanges is 0, whatever the number of updates counted before.
C4_SuccessResetsPending ==
  last.op = "fetchSucceeds" => syncStatus[last.path].pendingChanges = 0

\* C5: a failed fetch leaves every SyncStatus as it is; the first and the
\* second failed attempt of a reconciliation are followed by one more fetch
\* and no event; the third ends the reconciliation with exactly one
\* syncError and no syncCompleted, and there is no fourth attempt.
C5_ThreeAttemptsThenOneError ==
  [][\A d \in DrainIds :
       FetchFails(d) =>
         /\ syncStatus' = syncStatus
         /\ drains[d].attempts <= 3
         /\ drains[d].attempts < 3 =>
              /\ drains'[d].pc = "fetch"
              /\ drains'[d].attempts = drains[d].attempts + 1
              /\ last'.events = <<>>
         /\ drains[d].attempts = 3 =>
              /\ drains'[d].pc = "next"
              /\ last'.events = <<"syncError">>]_vars

\* the third fetch of a watched path without a bound state has just failed
C5_Witness ==
  /\ last.op = "fetchFails"
  /\ last.result = "failed"
  /\ last.events = <<"syncError">>
  /\ last.path \notin distributedStates

\* C6: a path given up after its fetch failed does not block the others: the
\* drain loop goes on after giving up, it ends only when no path is left
\* waiting, and a path it reconciles after having given another one up is
\* reconciled successfully (syncCompleted) when its own fetch succeeds.
C6_FailingPathDoesNotBlock ==
  [][\A d \in DrainIds :
       /\ (FetchFails(d) /\ last'.result = "failed") => drains'[d].pc = "next"
       /\ (DrainNext(d) /\ drains'[d].pc = "idle") => syncQueue = <<>>
       /\ (drains[d].exhausted /\ FetchSucceeds(d)) =>
            last'.events = <<"syncCompleted">>]_vars

\* C7: at most one reconciliation (a fetch of the drain loop or of forceSync)
\* is in flight at any time, and at most one drain loop is active.
C7_SingleFlight == InFlight <= 1 /\ Cardinality(ActiveDrains) <= 1

\* C8: a remote update counted on a watched, unpaused path is eventually
\* followed by the drain loop dequeuing that path for a reconciliation
\* (unless the path is stopped).
UpdateObserved(p) ==
  last.op = "handleUpdate" /\ last.path = p /\ last.events = <<"dataUpdated">>
ReconciliationStarted(p) == last.dequeued.value = p
C8_UpdateEventuallyReconciled ==
  \A p \in MainPaths : UpdateObserved(p) ~> (ReconciliationStarted(p) \/ ~Has(p))

\* C9: a path that has no SyncStatus gets one only by startSync (or syncState,
\* which calls it): a fetch in flight when the path was stopped creates none.
C9_StoppedStaysStopped ==
  [][\A p \in Paths :
       (p \notin Range(syncKeys) /\ p \in Range(syncKeys')) =>
         (last'.op \in {"startSync", "syncState"} /\ last'.path = p)]_vars

C11_ForceSyncSingleAttempt ==
  [][/\ \A p \in Paths :
          forceSync(p) =>
            /\ UNCHANGED <<syncKeys, syncStatus, syncQueue, isSyncing, drains>>
            /\ IF Has(p)
               THEN force'.pc = "fetch" /\ force'.path = p
               ELSE force'.pc = "idle" /\ last'.result = "rejected"
     /\ (~force.all /\ ForceFetchFails) =>
          /\ force'.pc = "idle"
          /\ last'.result = "rejected"
          /\ last'.events = <<"syncError">>
          /\ UNCHANGED <<syncKeys, syncStatus, syncQueue, isSyncing, drains>>
     /\ (~force.all /\ ForceFetchSucceeds) =>
          /\ force'.pc = "idle"
          /\ last'.result = "ok"
          /\ last'.events = <<"syncCompleted">>
          /\ syncStatus'[force.path].pendingChanges = 0
          /\ UNCHANGED <<syncQueue, isSyncing, drains>>]_vars

\* C12: stop() leaves no watched path, an empty queue, a pending count of 0
\* and isSyncInProgress() false, however many paths were watched before it
\* (none, one or several), and a second stop() changes none of this.
C12_StopIsTerminal ==
  [][stop =>
       /\ syncKeys' = <<>>
       /\ syncQueue' = <<>>
       /\ \A p \in Paths : syncStatus'[p].pendingChanges = 0
       /\ ~isSyncing'
       /\ last.op = "stop" => UNCHANGED <<syncKeys, syncStatus, syncQueue, isSyncing>>]_vars

\* C13: startSync(path, p) on a watched path does not raise, emits nothing
\* (no syncStarted) and leaves every SyncStatus, with its priority and its
\* pendingChanges, the queue and the set of watched paths as they are.
C13_StartSyncOnWatchedIsNoOp ==
  [][\A p \in Paths, pr \in SyncPriority :
       (Has(p) /\ startSync(p, pr)) =>
         /\ UNCHANGED <<syncKeys, syncStatus, syncQueue, isSyncing, distributedStates,
                        drains, force>>
         /\ last'.events = <<>>
         /\ last'.dequeued = NoEntry
         /\ last'.result \notin {"threw", "rejected"}]_vars

\* startSync has just been called on a watched path with a counted update
C13_Witness ==
  /\ last.op = "startSync"
  /\ last.result = "ignored"
  /\ Has(last.path)
  /\ syncStatus[last.path].pendingChanges > 0

\* C14: syncState(path) and persistState(path) on a path with a bound
\* DistributedState throw and leave the binding, every SyncStatus and the
\* queue as they are.
C14_BoundPathThrows ==
  [][\A p \in Paths :
       (p \in distributedStates /\ (syncState(p) \/ persistState(p))) =>
         /\ last'.result = "threw"
         /\ last'.events = <<>>
         /\ UNCHANGED <<syncKeys, syncStatus, syncQueue, isSyncing, distributedStates,
                        drains, force>>]_vars

\* syncState has just thrown for a watched path that was bound before
C14_Witness ==
  /\ last.op = "syncState"
  /\ last.result = "threw"
  /\ last.path \in distributedStates
  /\ Has(last.path)

\* C15: paths of equal priority waiting in the queue stand in the order in
\* which startSync enqueued them, and the drain loop dequeues the one enqueued
\* first among them, also after updates on waiting paths and with paths of
\* another priority enqueued in between.  (Under FifoSpec no path is stopped,
\* so syncKeys is the order of the startSync calls.)
KeyIndex(p) == CHOOSE i \in 1..Len(syncKeys) : syncKeys[i] = p
SamePriority(e, f) == priorityValues(e.priority) = priorityValues(f.priority)
C15_StableFifo ==
  /\ \A i, j \in 1..Len(syncQueue) :
       (i < j /\ SamePriority(syncQueue[i], syncQueue[j])) =>
         KeyIndex(syncQueue[i].value) < KeyIndex(syncQueue[j].value)
  /\ last.dequeued # NoEntry =>
       \A i \in 1..Len(syncQueue) :
         SamePriority(syncQueue[i], last.dequeued) =>
           KeyIndex(last.dequeued.value) < KeyIndex(syncQueue[i].value)

\* the drain loop has just dequeued a path while a path of the same priority
\* with a counted update waits, and a path of another priority was started
\* between the two
C15_Witness ==
  /\ last.dequeued # NoEntry
  /\ \E i \in 1..Len(syncQueue) :
       /\ SamePriority(syncQueue[i], last.dequeued)
       /\ syncStatus[syncQueue[i].value].pendingChanges > 0
       /\ \E p \in Range(syncKeys) :
            /\ syncStatus[p].priority # last.dequeued.priority
            /\ KeyIndex(last.dequeued.value) < KeyIndex(p)
            /\ KeyIndex(p) < KeyIndex(syncQueue[i].value)

\* what the store holds for an address, under its public and its private path
StoredAt(address) == {store[<<b>> \o address] : b \in BaseTypes} \ {Absent}
\* the stored code is the code the stored signature was made over
Untampered(stored) ==
  stored.metadata.signature # NoSignature /\ stored.metadata.signature[1].code = stored.code
Authorized(stored, user) ==
  stored.kind = "plain" \/ user \in stored.metadata.acl.allowedUsers

\* C16: getComponent('author/id/version', userPair) of a package that was
\* published under this address and not changed since, by a caller who is
\* authorized (anybody for a public package, a member of acl.allowedUsers for
\* a private or shared one), passes the signature verification and returns
\* the package with the metadata and the code that were published.
C16_PublishFetchRoundTrip ==
  [][\A address \in Addresses, user \in Users :
       getComponent(address, user) =>
         \A stored \in StoredAt(address) :
           (/\ Cardinality(StoredAt(address)) = 1
            /\ Untampered(stored)
            /\ Authorized(stored, user)) =>
             /\ reg'.result = "ok"
             /\ reg'.package = [metadata |-> stored.metadata, code |-> stored.code]]_vars

\* C17: getComponent of a private or shared package by a caller whose public
\* key is not in acl.allowedUsers returns no plaintext and fails with an
\* access-denied error; it does not report the component as absent.
C17_UnauthorizedCallerIsDenied ==
  [][\A address \in Addresses, user \in Users :
       getComponent(address, user) =>
         \A stored \in StoredAt(address) :
           (/\ Cardinality(StoredAt(address)) = 1
            /\ stored.kind = "encrypted"
            /\ user \notin stored.metadata.acl.allowedUsers) =>
             /\ reg'.result = "AccessDenied"
             /\ reg'.package = NoPackage]_vars

\* C18: when the stored code is not the code that was signed, getComponent
\* returns no package and fails with a signature-verification error, for a
\* public package and for a private one that the caller can decrypt.
C18_TamperedCodeFailsVerification ==
  [][\A address \in Addresses, user \in Users :
       getComponent(address, user) =>
         \A stored \in StoredAt(address) :
           (/\ Cardinality(StoredAt(address)) = 1
            /\ ~Untampered(stored)
            /\ stored.kind = "plain" \/ decryptComponent(stored, user) # NoPackage) =>
             /\ reg'.result = "SignatureError"
             /\ reg'.package = NoPackage]_vars

\* C19: the signature publishComponent stores is made over the metadata
\* without its signature field and the code, the data verifyComponentSignature
\* signs again, also when the metadata passed in carries a signature already.
C19_SignatureOverStrippedPayload ==
  (reg.op \in {"publishComponent", "updateComponentAccess"} /\ reg.result = "ok") =>
    store[reg.path].metadata.signature[1] =
      signedData(store[reg.path].metadata, store[reg.path].code)

\* C20: the search index has at most one entry for a component id, and after
\* a publish the entry of the published id is the metadata just published
\* (of alice/widget/2.0.0 after alice/widget/1.0.0: last write wins).
EntriesOf(id) == {i \in 1..Len(indexedComponents) : indexedComponents[i].id = id}
C20_OneIndexEntryPerId ==
  /\ \A id \in Ids : Cardinality(EntriesOf(id)) <= 1
  /\ (reg.op = "publishComponent" /\ reg.result = "ok") =>
       /\ EntriesOf(reg.package.metadata.id) # {}
       /\ \A i \in EntriesOf(reg.package.metadata.id) :
            indexedComponents[i] = reg.package.metadata

\* version 2.0.0 of an id has just been published with version 1.0.0 of it
\* in the store, and the index has an entry of another id as well
C20_Witness ==
  /\ reg.op = "publishComponent"
  /\ reg.result = "ok"
  /\ reg.package.metadata.version = "2.0.0"
  /\ reg.package.metadata.acl.type = "public"
  /\ store[<<"public", reg.package.metadata.author, reg.package.metadata.id, "1.0.0">>].kind
       = "plain"
  /\ Len(indexedComponents) = 2

\* C21: the search index holds public metadata only: the metadata of a
\* package published with acl.type private or shared is never an entry of
\* it (searchComponents returns entries of the index).
C21_IndexHoldsPublicOnly ==
  \A i \in 1..Len(indexedComponents) : indexedComponents[i].acl.type = "public"

\* C22: no package with an acl.type other than public is stored with an
\* empty allowedUsers list: no stored encrypted package has an empty
\* encryptedKey map.
C22_EncryptedHasRecipients ==
  \A path \in StorePaths :
    store[path].kind = "encrypted" =>
      /\ store[path].metadata.acl.allowedUsers # {}
      /\ \E u \in Users : store[path].encryptedKey[u] # NoKey

\* C23: when the store put of publishComponent rejects, publishComponent
\* rejects, emits no componentUpdate and leaves the search index (and the
\* store) as it is; the event and the index update come after a put that
\* succeeded.
C23_NoNotifyWithoutWrite ==
  [][(calls' # calls /\ reg'.op = "publishComponent") =>
         \/ /\ reg'.result = "rejected"
            /\ reg'.events = <<>>
            /\ UNCHANGED <<store, indexedComponents>>
         \/ /\ reg'.result = "ok"
            /\ reg'.events = <<"componentUpdate">>
            /\ store'[reg'.path].kind # "absent"
            /\ store'[reg'.path].metadata = reg'.package.metadata]_vars

\* the put of a publish has just been rejected with entries in the index
C23_Witness ==
  /\ reg.op = "publishComponent"
  /\ reg.result = "rejected"
  /\ indexedComponents # <<>>

\* C30: cast is idempotent: for every schema (nested ones included) and
\* every value, cast of the result of a cast that did not throw does not
\* throw and returns that result again.
C30_CastIdempotent ==
  castStep = "twice" =>
    /\ castOutput # Threw
    /\ castOutput = cast(castSchema, castInput)

\* a nested schema was cast twice on an object whose nested object has a
\* field that the cast coerces
C30_Witness ==
  /\ castStep = "twice"
  /\ \E e \in castSchema : e[1] = "a" /\ e[2] = Nested({<<"a", Type("number")>>})
  /\ In("a", castInput)
  /\ Get(castInput, "a") = Obj({<<"a", Str("abc")>>})
  /\ castOutput # castInput

\* C24: set(partial) changes the cache and emits stateChanged only once
\* the store has accepted the write, and the event carries the cache after
\* and before the merge; while the write is pending nothing changes and
\* nothing is emitted; when the write is refused, set rejects with the
\* cache unchanged and without an event.
C24_SetAppliesAfterAccept ==
  [][\A s \in Slots :
       /\ (dsCalls[s].pc = "idle" /\ dsCalls'[s].op = "set") =>
            /\ UNCHANGED <<dsStore, dsState>>
            /\ dsLast'.events = <<>>
       /\ (dsCalls[s].op = "set" /\ dsCalls'[s].pc = "idle") =>
            \/ /\ dsLast'.result = "ok"
               /\ dsStore' = GunPut(dsStore, dsCalls[s].data)
               /\ dsState' = Spread(dsState, dsCalls[s].data)
               /\ dsLast'.events = <<<<"stateChanged", dsState', dsState>>>>
            \/ /\ dsLast'.result = "rejected"
               /\ UNCHANGED <<dsStore, dsState>>
               /\ dsLast'.events = <<>>]_vars

\* a set was refused after another write had been accepted
C24_Witness ==
  /\ dsLast.op = "set"
  /\ dsLast.result = "rejected"
  /\ dsApplied = <<"none">>
  /\ dsState # constructed(Undefined)

\* C25: update is not atomic, the last set wins: the accepted write of an
\* update stores what its updater made of the value the update read, also
\* when another update has written in between, so that two updates that
\* read the same value leave the effect of one of them only.
C25_LastSetWins ==
  [][\A s \in Slots :
       (/\ dsCalls[s].op = "update" /\ dsCalls[s].pc = "put"
        /\ dsCalls'[s].pc = "idle" /\ dsLast'.result = "ok") =>
         Get(dsStore', "a") = Get(dsCalls[s].data, "a")]_vars

\* addTwo and addOne both read 0 and both wrote: the store holds 1, not 3
C25_Witness ==
  /\ dsApplied = <<"addTwo", "addOne">>
  /\ calls = 2
  /\ dsLast.op = "update"
  /\ \A s \in Slots : dsCalls[s].pc = "idle"
  /\ dsStore # Null
  /\ Get(dsStore, "a") = Num("1")

\* C26: transaction(fn) does what update(fn) does: it waits for the same
\* read, goes on from it to the same write or the same rejection with no
\* further check, and its accepted write changes store and cache and emits
\* as that of an update does.
C26_TransactionIsUpdate ==
  [][\A s \in Slots :
       /\ (dsCalls[s].pc = "idle" /\ dsCalls'[s].op = "transaction") =>
            /\ dsCalls'[s].pc = "get"
            /\ UNCHANGED <<dsStore, dsState>>
            /\ dsLast'.events = <<>>
       /\ (dsCalls[s].op = "transaction" /\ dsCalls[s].pc = "get" /\ dsCalls'[s] # dsCalls[s]) =>
            LET went == update([dsCalls[s] EXCEPT !.op = "update"], dsStore)
            IN /\ dsCalls'[s] = IF went.call = IdleCall THEN IdleCall
                                ELSE [went.call EXCEPT !.op = "transaction"]
               /\ dsLast'.result = went.result
               /\ dsLast'.events = <<>>
               /\ UNCHANGED <<dsStore, dsState>>
       /\ (dsCalls[s].op = "transaction" /\ dsCalls[s].pc = "put" /\ dsCalls'[s].pc = "idle") =>
            \/ /\ dsLast'.result = "ok"
               /\ dsStore' = GunPut(dsStore, dsCalls[s].data)
               /\ dsState' = Spread(dsState, dsCalls[s].data)
               /\ dsLast'.events = <<stateChanged(dsState', dsState)>>
            \/ /\ dsLast'.result = "rejected"
               /\ UNCHANGED <<dsStore, dsState>>
               /\ dsLast'.events = <<>>]_vars

\* a transaction wrote over a cache that no longer was what it had read
C26_Witness ==
  /\ dsLast.op = "transaction"
  /\ dsLast.result = "ok"
  /\ dsApplied = <<"none", "addTwo">>
  /\ Get(dsStore, "a") = Num("2")

C31_DefaultValidates ==
  (castStep = "validated" /\ Declarable(castSchema)) => castOutput = Bool("true")

\* the default of a schema with an 'object' field and a nested schema was
\* validated
C31_Witness ==
  /\ castStep = "validated"
  /\ castSchema = {<<"a", Type("object")>>, <<"b", Nested({<<"a", Type("array")>>})>>}
  /\ castInput = Obj({<<"a", Obj({})>>, <<"b", Obj({<<"a", Arr("[]")>>})>>})
  /\ castOutput = Bool("true")

\* C32: after every connect or disconnect, by call or by notification, the
\* peer directory holds exactly the ids whose last event was a connect, one
\* PeerInfo per id; a disconnect of an id that is not in the directory
\* leaves the directory as it is; stop() empties it.
C32_DirectoryFollowsEvents ==
  [][/\ PeerIdsOf(peers') = {id \in PeerIds : peerSeen'[id] = "connect"}
     /\ Len(peers') = Cardinality(PeerIdsOf(peers'))
     /\ (/\ peerLast'.op \in {"disconnectFromPeer", "handlePeerDisconnected"}
         /\ calls' # calls
         /\ peerLast'.id \notin PeerIdsOf(peers)) => peers' = peers
     /\ (peerLast'.op = "stop" /\ calls' # calls) => peers' = <<>>]_vars

\* a peer connected twice, with another url the second time, after another
\* peer had come and gone
C32_Witness ==
  /\ peerLast.op = "handlePeerConnected"
  /\ peerLast.id = "p1"
  /\ Len(peers) = 1
  /\ peers[1].url = "u2"
  /\ peerSeen["p2"] = "disconnect"
  /\ calls = MaxCalls

\* C33: analyzeTopology() lists a peer as central only if the peer has more
\* connections than the average it reports, counted as the average is (the
\* edges that leave a node); with n >= 1 peers it reports n peers, n*(n-1)
\* connections and an average of n-1.
C33_CentralAboveAverage ==
  peerLast.op = "analyzeTopology" =>
    LET graph == generateNetworkGraph(peers)
        n == Len(peers)
    IN /\ \A i \in 1..Len(analysis.centralPeers) :
            Greater(Cardinality({e \in graph.edges : e[1] = analysis.centralPeers[i]}),
                    analysis.averageConnections)
       /\ n >= 1 =>
            /\ analysis.totalPeers = n
            /\ analysis.totalConnections = n * (n - 1)
            /\ analysis.averageConnections[1] = (n - 1) * analysis.averageConnections[2]

\* C34: for a path bound to a DistributedState, a store fetch of the drain
\* loop that succeeds ends in a successful reconciliation: syncCompleted is
\* emitted, and neither a retry nor a syncError results.
C34_BoundFetchReconciles ==
  (last.op \in {"fetchSucceeds", "applyFails"} /\ last.path \in distributedStates) =>
    /\ last.events = <<"syncCompleted">>
    /\ last.result \notin {"retry", "failed"}

\* C35: when the single attempt of forceSyncAll() on one path fails while
\* paths that were watched at the call are still to come, forceSyncAll
\* goes on to the attempt on the next of them.
C35_ForceSyncAllGoesOn ==
  [][(/\ force.pc = "fetch" /\ force.all /\ force.rest # <<>>
      /\ last'.op \in {"forceFails", "forceApplyFails"}
      /\ force' # force) =>
       (force'.pc = "fetch" /\ force'.all /\ force'.path = Head(force.rest))]_vars

Drained == syncQueue = <<>> /\ ~isSyncing /\ \A d \in DrainIds : drains[d].pc = "idle"
C37_DrainTerminates ==
  /\ isSyncing ~> Drained
  /\ [][(Drained /\ ~Drained') => calls' # calls]_vars

\* the loop has ended after it reconciled two paths, one of them updated
\* while it waited
C37_Witness ==
  /\ Drained
  /\ last.op = "drainNext"
  /\ calls = MaxCalls
  /\ \A p \in MainPaths : Has(p)
  /\ \E p \in MainPaths : syncStatus[p].pendingChanges < 0
  /\ \E p \in MainPaths : syncStatus[p].pendingChanges = 0

\* C38: once no set, update or transaction is in flight and every change
\* notification has been delivered (in any order, some more than once),
\* every declared field of getCurrentState() that the stored value has
\* equals the cast of the stored value for that field.
C38_CacheConverges ==
  (dsNotes = {} /\ dsStore # Null /\ \A s \in Slots : dsCalls[s].pc = "idle") =>
    \A e \in StateSchema :
      (In(e[1], getCurrentState) /\ In(e[1], dsStore)) =>
        Get(getCurrentState, e[1]) = Get(cast(StateSchema, dsStore), e[1])

C40_NoPlaintextAfterRepublish ==
  \A a \in Authors, i \in Ids, v \in Versions :
    (/\ reg.op \in {"publishComponent", "updateComponentAccess"}
     /\ reg.result = "ok"
     /\ reg.path = <<"private", a, i, v>>)
      => store[<<"public", a, i, v>>].kind # "plain"
====
